---- MODULE Spec2Model ----
(***************************************************************************)
(* Model of wazbean_wrapper.cc: the exported function parse_bql_to_json    *)
(* and the process-wide buffer result_json it returns a pointer into.      *)
(*                                                                         *)
(* A text is a sequence of tokens (strings).  A "run" is one process image *)
(* of the module with its own result_json; the host calls the function     *)
(* repeatedly on a run.  Two runs exist so that call sequences can be      *)
(* compared side by side; Spec drives run 1 only, SpecPair drives both.    *)
(*                                                                         *)
(* The two collaborators are external: beancount::parser::ParseString      *)
(* answers with a ledger, with null, or by throwing;                       *)
(* google::protobuf::util::MessageToJsonString answers ok, non-ok or by    *)
(* throwing, and, as json_util.h documents ("converts from protobuf        *)
(* message to JSON and appends it to |output|"), APPENDS what it writes to *)
(* the string it is handed.                                                *)
(***************************************************************************)
EXTENDS Naturals, Sequences, FiniteSets, TLC

VARIABLES
    pc,            \* per run: position inside parse_bql_to_json, or "idle"
    result_json,   \* per run: content of the global std::string result_json
    query_string,  \* per run: argument of the current / last call
    ledger,        \* per run: local unique_ptr<Ledger> of the current / last call
    json_options,  \* per run: local JsonPrintOptions of the current / last call
    status,        \* per run: local status of the current / last call
    written,       \* per run: tokens the serializer wrote in the current / last call
    events,        \* per run: external calls made by the current / last call, in order
    used_options,  \* per run: options of every serializer invocation so far
    outcome,       \* per run: how the current / last call ended
    returned,      \* per run: text seen through the pointer at the moment of return
    calls,         \* per run: number of calls started
    thrown         \* per run: number of calls left by an exception

vars == <<pc, result_json, query_string, ledger, json_options, status, written,
          events, used_options, outcome, returned, calls, thrown>>

\* ------------------------------------------------------------------ bounds

MaxCalls == 3

MaxPairCalls == 2

\* ------------------------------------------------------------------ values

Runs == {1, 2}

nullptr == "nullptr"

Queries == {"2024-01-01 open Assets:Cash", "2024-01-02 close Assets:Cash"}

Inputs == {nullptr} \cup Queries

Filename == "<wazbean>"

NullLedger == [null |-> TRUE]

Ledger(text, filename) == [null |-> FALSE, text |-> text, filename |-> filename]

ErrNullInput == <<"{\"error\": \"Input query was null.\"}">>

ErrNullLedger == <<"{\"error\": \"Parser returned a null ledger.\"}">>

ErrSerialize == <<"{\"error\": \"Failed to serialize ledger to JSON.\"}">>

DefaultOptions == [add_whitespace |-> FALSE, always_print_primitive_fields |-> FALSE]

Prefix(s, n) == SubSeq(s, 1, n)

\* What the external parser can answer for a text and a file name.
ParseString(text, filename) ==
    { [kind |-> "value", ledger |-> Ledger(text, filename)],
      [kind |-> "value", ledger |-> NullLedger],
      [kind |-> "throw", ledger |-> NullLedger] }

\* The JSON document the serializer produces for a ledger under the options.
JsonDocument(l, options) ==
    <<IF options.add_whitespace THEN "{\n" ELSE "{">>
    \o <<"\"entries\": ", l.text>>
    \o (IF options.always_print_primitive_fields THEN <<"\"errors\": []">> ELSE <<>>)
    \o <<IF options.add_whitespace THEN "\n}" ELSE "}">>

\* What the external serializer can do with the string it is handed: it
\* appends the whole document and reports ok, or appends a part of it and
\* reports an error or throws.
MessageToJsonString(l, output, options) ==
    LET doc == JsonDocument(l, options) IN
    { [kind |-> "value", status |-> "ok", wrote |-> doc, output |-> output \o doc] }
    \cup
    { [kind |-> k, status |-> "error", wrote |-> Prefix(doc, n),
       output |-> output \o Prefix(doc, n)] :
         k \in {"value", "throw"}, n \in 0..(Len(doc) - 1) }

\* ------------------------------------------------------------------ state

Init ==
    /\ pc = [r \in Runs |-> "idle"]
    /\ result_json = [r \in Runs |-> <<>>]
    /\ query_string = [r \in Runs |-> nullptr]
    /\ ledger = [r \in Runs |-> NullLedger]
    /\ json_options = [r \in Runs |-> DefaultOptions]
    /\ status = [r \in Runs |-> "none"]
    /\ written = [r \in Runs |-> <<>>]
    /\ events = [r \in Runs |-> <<>>]
    /\ used_options = [r \in Runs |-> {}]
    /\ outcome = [r \in Runs |-> "none"]
    /\ returned = [r \in Runs |-> <<>>]
    /\ calls = [r \in Runs |-> 0]
    /\ thrown = [r \in Runs |-> 0]

\* Variant of ReturnCStr: the pointer is taken from a string that does not
\* outlive the call, so what the host sees afterwards is no longer the text.
ReturnCStrOfTemporary(r, text, how) ==
    /\ result_json' = [result_json EXCEPT ![r] = <<>>]
    /\ returned' = [returned EXCEPT ![r] = text]
    /\ outcome' = [outcome EXCEPT ![r] = how]
    /\ pc' = [pc EXCEPT ![r] = "idle"]

\* return result_json.c_str(): the call ends, the host holds a pointer into
\* result_json, whose content is now text.
ReturnCStr(r, text, how) ==
    /\ result_json' = [result_json EXCEPT ![r] = text]
    /\ returned' = [returned EXCEPT ![r] = text]
    /\ outcome' = [outcome EXCEPT ![r] = how]
    /\ pc' = [pc EXCEPT ![r] = "idle"]

\* An exception leaves the function: no value is returned, the buffer keeps
\* what it held when the exception was raised.
Unwind(r, text) ==
    /\ result_json' = [result_json EXCEPT ![r] = text]
    /\ outcome' = [outcome EXCEPT ![r] = "exception"]
    /\ thrown' = [thrown EXCEPT ![r] = @ + 1]
    /\ pc' = [pc EXCEPT ![r] = "idle"]
    /\ UNCHANGED returned

\* The host calls parse_bql_to_json(q): the locals of the new activation.
Call(r, q) ==
    /\ pc[r] = "idle"
    /\ calls[r] < MaxCalls
    /\ pc' = [pc EXCEPT ![r] = "check_input"]
    /\ query_string' = [query_string EXCEPT ![r] = q]
    /\ ledger' = [ledger EXCEPT ![r] = NullLedger]
    /\ json_options' = [json_options EXCEPT ![r] = DefaultOptions]
    /\ status' = [status EXCEPT ![r] = "none"]
    /\ written' = [written EXCEPT ![r] = <<>>]
    /\ events' = [events EXCEPT ![r] = <<>>]
    /\ outcome' = [outcome EXCEPT ![r] = "running"]
    /\ calls' = [calls EXCEPT ![r] = @ + 1]
    /\ UNCHANGED <<result_json, used_options, returned, thrown>>

\* Variant of CheckInput: the null check is missing.
CheckInputUnchecked(r) ==
    /\ pc[r] = "check_input"
    /\ pc' = [pc EXCEPT ![r] = "call_parser"]
    /\ UNCHANGED <<result_json, returned, outcome, query_string, ledger, json_options,
                   status, written, events, used_options, calls, thrown>>

\* if (query_string == nullptr) { result_json = ...; return result_json.c_str(); }
CheckInput(r) ==
    /\ pc[r] = "check_input"
    /\ IF query_string[r] = nullptr
         THEN ReturnCStr(r, ErrNullInput, "null_input")
         ELSE /\ pc' = [pc EXCEPT ![r] = "call_parser"]
              /\ UNCHANGED <<result_json, returned, outcome>>
    /\ UNCHANGED <<query_string, ledger, json_options, status, written, events,
                   used_options, calls, thrown>>

\* Variant of CallParser: a null ledger makes the parser be tried again.
CallParserRetrying(r) ==
    /\ pc[r] = "call_parser"
    /\ \E resp \in ParseString(query_string[r], Filename) :
         /\ events' = [events EXCEPT ![r] = Append(@,
                [fn |-> "ParseString",
                 res |-> IF resp.kind = "throw" THEN "throw"
                         ELSE IF resp.ledger.null THEN "null" ELSE "ledger"])]
         /\ IF resp.kind = "throw"
              THEN /\ Unwind(r, result_json[r])
                   /\ UNCHANGED ledger
              ELSE /\ ledger' = [ledger EXCEPT ![r] = resp.ledger]
                   /\ pc' = [pc EXCEPT ![r] =
                          IF resp.ledger.null /\ Len(events[r]) = 0
                            THEN "call_parser" ELSE "check_ledger"]
                   /\ UNCHANGED <<result_json, returned, outcome, thrown>>
    /\ UNCHANGED <<query_string, json_options, status, written, used_options, calls>>

\* ledger = beancount::parser::ParseString(query_string, "<wazbean>");
CallParser(r) ==
    /\ pc[r] = "call_parser"
    /\ \E resp \in ParseString(query_string[r], Filename) :
         /\ events' = [events EXCEPT ![r] = Append(@,
                [fn |-> "ParseString",
                 res |-> IF resp.kind = "throw" THEN "throw"
                         ELSE IF resp.ledger.null THEN "null" ELSE "ledger"])]
         /\ IF resp.kind = "throw"
              THEN /\ Unwind(r, result_json[r])
                   /\ UNCHANGED ledger
              ELSE /\ ledger' = [ledger EXCEPT ![r] = resp.ledger]
                   /\ pc' = [pc EXCEPT ![r] = "check_ledger"]
                   /\ UNCHANGED <<result_json, returned, outcome, thrown>>
    /\ UNCHANGED <<query_string, json_options, status, written, used_options, calls>>

\* Variant of CheckLedger: the message is appended (+=) instead of assigned.
CheckLedgerAppending(r) ==
    /\ pc[r] = "check_ledger"
    /\ IF ledger[r].null
         THEN ReturnCStr(r, result_json[r] \o ErrNullLedger, "null_ledger")
         ELSE /\ pc' = [pc EXCEPT ![r] = "set_options"]
              /\ UNCHANGED <<result_json, returned, outcome>>
    /\ UNCHANGED <<query_string, ledger, json_options, status, written, events,
                   used_options, calls, thrown>>

\* if (!ledger) { result_json = ...; return result_json.c_str(); }
CheckLedger(r) ==
    /\ pc[r] = "check_ledger"
    /\ IF ledger[r].null
         THEN ReturnCStr(r, ErrNullLedger, "null_ledger")
         ELSE /\ pc' = [pc EXCEPT ![r] = "set_options"]
              /\ UNCHANGED <<result_json, returned, outcome>>
    /\ UNCHANGED <<query_string, ledger, json_options, status, written, events,
                   used_options, calls, thrown>>

\* Variant of SetOptions: always_print_primitive_fields is left at its default.
SetOptionsWhitespaceOnly(r) ==
    /\ pc[r] = "set_options"
    /\ json_options' = [json_options EXCEPT ![r].add_whitespace = TRUE]
    /\ pc' = [pc EXCEPT ![r] = "call_serializer"]
    /\ UNCHANGED <<result_json, query_string, ledger, status, written, events,
                   used_options, outcome, returned, calls, thrown>>

\* json_options.add_whitespace = true;
\* json_options.always_print_primitive_fields = true;
SetOptions(r) ==
    /\ pc[r] = "set_options"
    /\ json_options' = [json_options EXCEPT ![r] =
           [add_whitespace |-> TRUE, always_print_primitive_fields |-> TRUE]]
    /\ pc' = [pc EXCEPT ![r] = "call_serializer"]
    /\ UNCHANGED <<result_json, query_string, ledger, status, written, events,
                   used_options, outcome, returned, calls, thrown>>

\* auto status = MessageToJsonString(*ledger, &result_json, json_options);
CallSerializer(r) ==
    /\ pc[r] = "call_serializer"
    /\ used_options' = [used_options EXCEPT ![r] = @ \cup {json_options[r]}]
    /\ \E resp \in MessageToJsonString(ledger[r], result_json[r], json_options[r]) :
         /\ events' = [events EXCEPT ![r] = Append(@,
                [fn |-> "MessageToJsonString",
                 res |-> IF resp.kind = "throw" THEN "throw" ELSE resp.status])]
         /\ written' = [written EXCEPT ![r] = resp.wrote]
         /\ IF resp.kind = "throw"
              THEN /\ Unwind(r, resp.output)
                   /\ UNCHANGED status
              ELSE /\ status' = [status EXCEPT ![r] = resp.status]
                   /\ result_json' = [result_json EXCEPT ![r] = resp.output]
                   /\ pc' = [pc EXCEPT ![r] = "check_status"]
                   /\ UNCHANGED <<returned, outcome, thrown>>
    /\ UNCHANGED <<query_string, ledger, json_options, calls>>

\* Variant of CheckStatus: on a non-ok status the buffer is returned as the
\* serializer left it.
CheckStatusKeepingPartial(r) ==
    /\ pc[r] = "check_status"
    /\ ReturnCStr(r, result_json[r], IF status[r] # "ok" THEN "serialize_error" ELSE "success")
    /\ UNCHANGED <<query_string, ledger, json_options, status, written, events,
                   used_options, calls, thrown>>

\* if (!status.ok()) { result_json = ...; return ...; }  return result_json.c_str();
CheckStatus(r) ==
    /\ pc[r] = "check_status"
    /\ IF status[r] # "ok"
         THEN ReturnCStr(r, ErrSerialize, "serialize_error")
         ELSE ReturnCStr(r, result_json[r], "success")
    /\ UNCHANGED <<query_string, ledger, json_options, status, written, events,
                   used_options, calls, thrown>>

Step(r) ==
    \/ \E q \in Inputs : Call(r, q)
    \/ CheckInput(r)
    \/ CallParser(r)
    \/ CheckLedger(r)
    \/ SetOptions(r)
    \/ CallSerializer(r)
    \/ CheckStatus(r)

Next == Step(1)

Spec == Init /\ [][Next]_vars

\* Two runs side by side, each making at most MaxPairCalls calls.
PairNext == \E r \in Runs : Step(r) /\ calls'[r] <= MaxPairCalls

SpecPair == Init /\ [][PairNext]_vars

\* ------------------------------------------------------------------ claims

FixedOptions == [add_whitespace |-> TRUE, always_print_primitive_fields |-> TRUE]

ErrorTexts == {ErrNullInput, ErrNullLedger, ErrSerialize}

Finished(r) == pc[r] = "idle" /\ calls[r] > 0

Invoked(r, fn) == \E i \in 1..Len(events[r]) : events[r][i].fn = fn

Threw(r) == \E i \in 1..Len(events[r]) : events[r][i].res = "throw"

ParserAnswered(r, res) == Len(events[r]) >= 1 /\ events[r][1].res = res

SerializerAnswered(r, res) == Len(events[r]) >= 2 /\ events[r][2].res = res

\* C1: a call whose input pointer is null, whatever calls came before it,
\* never invokes the parser and, once it has ended, has returned exactly
\* the null-input error text.
C1_NullInput ==
    \A r \in Runs :
        (calls[r] > 0 /\ query_string[r] = nullptr) =>
            /\ ~Invoked(r, "ParseString")
            /\ Finished(r) =>
                 /\ outcome[r] = "null_input"
                 /\ returned[r] = ErrNullInput
                 /\ result_json[r] = ErrNullInput

\* C1 witness: a null-input call has ended after two earlier calls, the
\* one before it having left a JSON document in the buffer.
C1_Witness ==
    /\ Finished(1) /\ calls[1] = 3 /\ query_string[1] = nullptr
    /\ returned[1] = ErrNullInput
    /\ FixedOptions \in used_options[1]

\* C2: a call with a non-null input whose parser answer is a null ledger,
\* whatever calls came before it, never invokes the serializer and, once it
\* has ended, has returned exactly the null-ledger error text.
C2_NullLedger ==
    \A r \in Runs :
        (query_string[r] # nullptr /\ ParserAnswered(r, "null")) =>
            /\ ~Invoked(r, "MessageToJsonString")
            /\ Finished(r) =>
                 /\ outcome[r] = "null_ledger"
                 /\ returned[r] = ErrNullLedger
                 /\ result_json[r] = ErrNullLedger

\* C2 witness: a null-ledger call has ended after an earlier call that left
\* a JSON document in the buffer.
C2_Witness ==
    /\ Finished(1) /\ calls[1] >= 2 /\ ParserAnswered(1, "null")
    /\ returned[1] = ErrNullLedger
    /\ FixedOptions \in used_options[1]

\* C3: a call in which the parser answered a ledger and the serializer
\* reported a non-ok status has returned exactly the serialization error
\* text: neither what the serializer wrote before failing nor what an
\* earlier call left is part of it.
C3_SerializeError ==
    \A r \in Runs :
        (Finished(r) /\ ParserAnswered(r, "ledger") /\ SerializerAnswered(r, "error")) =>
            /\ outcome[r] = "serialize_error"
            /\ returned[r] = ErrSerialize
            /\ result_json[r] = ErrSerialize

\* C3 witness: the serializer failed after writing part of the document,
\* in a call that followed an earlier one.
C3_Witness ==
    /\ Finished(1) /\ calls[1] >= 2 /\ SerializerAnswered(1, "error")
    /\ written[1] # <<>>
    /\ returned[1] = ErrSerialize

\* C4: a call with a non-null input in which the parser answered a ledger
\* and the serializer reported ok has returned exactly the JSON document of
\* the ledger parsed from this call's input.
C4_SuccessIsThisCallsDocument ==
    \A r \in Runs :
        (Finished(r) /\ query_string[r] # nullptr /\ ParserAnswered(r, "ledger")
           /\ SerializerAnswered(r, "ok")) =>
            returned[r] = JsonDocument(Ledger(query_string[r], Filename), FixedOptions)

\* C5: two call sequences side by side whose last calls have ended with the
\* same input and the same answers of the parser and the serializer have
\* returned the same text.
C5_Stateless ==
    (/\ \A r \in Runs : Finished(r) /\ ~Threw(r)
     /\ query_string[1] = query_string[2]
     /\ events[1] = events[2]
     /\ written[1] = written[2])
        => returned[1] = returned[2]

\* C6: once a call has returned, the content seen through the returned
\* pointer is the text that call returned, until the next call starts.
C6_ValidUntilNextCall ==
    \A r \in Runs :
        (Finished(r) /\ ~Threw(r)) => result_json[r] = returned[r]

\* C6 witness: a second call has returned a text other than the first one's.
C6_Witness ==
    /\ Finished(1) /\ calls[1] = 2 /\ ~Threw(1)
    /\ returned[1] = ErrSerialize
    /\ thrown[1] = 0

\* C7: a call in which the parser or the serializer threw still ends by
\* returning one of the fixed error texts.
C7_NoExceptionPropagated ==
    \A r \in Runs :
        (Finished(r) /\ Threw(r)) =>
            /\ outcome[r] # "exception"
            /\ returned[r] \in ErrorTexts
            /\ result_json[r] = returned[r]

\* C8: every invocation of the serializer, in every call, is made with
\* add_whitespace and always_print_primitive_fields both true.
C8_FixedOptions ==
    \A r \in Runs :
        /\ used_options[r] \subseteq {FixedOptions}
        /\ pc[r] \in {"call_serializer", "check_status"} => json_options[r] = FixedOptions

\* C8 witness: the serializer has been invoked in two calls with different
\* inputs.
C8_Witness ==
    /\ Finished(1) /\ calls[1] = 2
    /\ Invoked(1, "MessageToJsonString")
    /\ result_json[1] = JsonDocument(Ledger("2024-01-01 open Assets:Cash", Filename), FixedOptions)
                        \o JsonDocument(Ledger("2024-01-02 close Assets:Cash", Filename), FixedOptions)

\* C9: within one call the parser is invoked at most once and only for a
\* non-null input, the serializer at most once and only after the parser
\* of this call answered a ledger, and nothing is invoked after an error
\* outcome.
C9_CallOrder ==
    \A r \in Runs :
        /\ Len(events[r]) <= 2
        /\ Len(events[r]) >= 1 =>
             /\ events[r][1].fn = "ParseString"
             /\ query_string[r] # nullptr
        /\ Len(events[r]) = 2 =>
             /\ events[r][2].fn = "MessageToJsonString"
             /\ events[r][1].res = "ledger"
             /\ ~ledger[r].null
        /\ outcome[r] \in {"null_input", "null_ledger", "serialize_error"} =>
             /\ pc[r] = "idle"
             /\ Len(events[r]) = (CASE outcome[r] = "null_input" -> 0
                                    [] outcome[r] = "null_ledger" -> 1
                                    [] outcome[r] = "serialize_error" -> 2)

\* C9 witness: a call has gone through both external calls and ended with
\* the serialization error.
C9_Witness ==
    /\ Finished(1) /\ outcome[1] = "serialize_error"
    /\ Len(events[1]) = 2

\* C10: when no external call has thrown, every ended call has one of the
\* four outcomes and returned the buffer, which holds one of the three
\* error texts or one JSON document.
C10_OutcomesAndBuffer ==
    \A r \in Runs :
        (Finished(r) /\ thrown[r] = 0) =>
            /\ outcome[r] \in {"null_input", "null_ledger", "serialize_error", "success"}
            /\ returned[r] = result_json[r]
            /\ result_json[r] \in ErrorTexts \cup
                 { JsonDocument(Ledger(q, Filename), FixedOptions) : q \in Queries }

====
